---------------------------- MODULE Spec2Model ----------------------------
(***************************************************************************)
(* SwingSignal AI: the two client-side report pages.                       *)
(*   daily  page: js/app.js    (src/unnamed/part_000, lines 145-346)       *)
(*   weekly page: js/weekly.js (src/js/weekly.js)                          *)
(* A page computes its report path from the query string, fetches the      *)
(* report once, renders the summary line and one card per signal, and then *)
(* reacts to clicks on the cards' "View Analysis" buttons.                 *)
(*                                                                         *)
(* JavaScript strings are sequences of one-character strings, so that      *)
(* toUpperCase, toLowerCase, split, parseInt and the HTML escaping are     *)
(* computed character by character.  A JavaScript value is a record        *)
(* [t, s, n]: its type tag, its characters (strings) and its magnitude     *)
(* (numbers; report numbers are modelled as non-negative integers).        *)
(***************************************************************************)
EXTENDS Integers, Sequences, FiniteSets, TLC

VARIABLES page, query, dataPath, pc, fetches, outcome, data, dom, clicks

vars == <<page, query, dataPath, pc, fetches, outcome, data, dom, clicks>>

-----------------------------------------------------------------------------
(* Bounds of the model.                                                    *)

MaxSignals == 2
MaxClicks == 3

-----------------------------------------------------------------------------
(* String literals of the two scripts.                                     *)

S_BUY == <<"B","U","Y">>
S_SELL == <<"S","E","L","L">>
S_buy == <<"b","u","y">>
S_NA == <<"N","/","A">>
S_NaN == <<"N","a","N">>
S_undefined == <<"u","n","d","e","f","i","n","e","d">>
S_null == <<"n","u","l","l">>
S_object == <<"[","o","b","j","e","c","t"," ","O","b","j","e","c","t","]">>
S_ThisWeek == <<"T","h","i","s"," ","W","e","e","k">>
S_Today == <<"T","o","d","a","y">>
S_WeekOf == <<"W","e","e","k"," ","o","f"," ">>
S_InvalidDate == <<"I","n","v","a","l","i","d"," ","D","a","t","e">>
S_ErrorLoading == <<"E","r","r","o","r"," ","l","o","a","d","i","n","g"," ","r","e","p","o","r","t">>
S_WeeklySignals == <<"W","e","e","k","l","y"," ","S","i","g","n","a","l","s">>
S_SwingSignalAI == <<"S","w","i","n","g","S","i","g","n","a","l"," ","A","I">>
S_NoAnalysis == <<"N","o"," ","a","n","a","l","y","s","i","s"," ","a","v","a","i","l","a","b","l","e",".">>
S_ViewAnalysis == <<"V","i","e","w"," ","A","n","a","l","y","s","i","s">>
S_HideAnalysis == <<"H","i","d","e"," ","A","n","a","l","y","s","i","s">>
S_reports == <<"r","e","p","o","r","t","s","/">>
S_reportsWeekly == <<"r","e","p","o","r","t","s","/","w","e","e","k","l","y","/">>
S_json == <<".","j","s","o","n">>
S_latest == <<"l","a","t","e","s","t">>
S_signalCard == <<"s","i","g","n","a","l","-","c","a","r","d"," ">>

LowerLetters == <<"a","b","c","d","e","f","g","h","i","j","k","l","m","n","o","p","q","r","s","t","u","v","w","x","y","z">>
UpperLetters == <<"A","B","C","D","E","F","G","H","I","J","K","L","M","N","O","P","Q","R","S","T","U","V","W","X","Y","Z">>
Digits == <<"0","1","2","3","4","5","6","7","8","9">>

WeekdayNames ==
  << <<"S","u","n","d","a","y">>,
     <<"M","o","n","d","a","y">>,
     <<"T","u","e","s","d","a","y">>,
     <<"W","e","d","n","e","s","d","a","y">>,
     <<"T","h","u","r","s","d","a","y">>,
     <<"F","r","i","d","a","y">>,
     <<"S","a","t","u","r","d","a","y">> >>
MonthNames ==
  << <<"J","a","n","u","a","r","y">>,
     <<"F","e","b","r","u","a","r","y">>,
     <<"M","a","r","c","h">>,
     <<"A","p","r","i","l">>,
     <<"M","a","y">>,
     <<"J","u","n","e">>,
     <<"J","u","l","y">>,
     <<"A","u","g","u","s","t">>,
     <<"S","e","p","t","e","m","b","e","r">>,
     <<"O","c","t","o","b","e","r">>,
     <<"N","o","v","e","m","b","e","r">>,
     <<"D","e","c","e","m","b","e","r">> >>

-----------------------------------------------------------------------------
(* JavaScript values and the language's conversions.                       *)

Undef == [t |-> "undefined", s |-> <<>>, n |-> 0]
Null == [t |-> "null", s |-> <<>>, n |-> 0]
NaN == [t |-> "nan", s |-> <<>>, n |-> 0]
Str(chars) == [t |-> "string", s |-> chars, n |-> 0]
Num(k) == [t |-> "number", s |-> <<>>, n |-> k]

\* ToBoolean: undefined, null, NaN, 0 and "" are falsy.
Truthy(v) ==
  CASE v.t = "string" -> v.s # <<>>
    [] v.t = "number" -> v.n # 0
    [] v.t = "object" -> TRUE
    [] OTHER -> FALSE

\* a || b
Or(a, b) == IF Truthy(a) THEN a ELSE b

Nullish(v) == v.t \in {"undefined", "null"}

\* The first position of c in seq, 0 when it does not occur (indexOf + 1).
IndexIn(seq, c) ==
  IF \E i \in 1..Len(seq) : seq[i] = c
  THEN CHOOSE i \in 1..Len(seq) : seq[i] = c /\ \A j \in 1..(i - 1) : seq[j] # c
  ELSE 0

IsDigit(c) == IndexIn(Digits, c) # 0
DigitVal(c) == IndexIn(Digits, c) - 1

\* Number.prototype.toString of a non-negative integer.
RECURSIVE NatToStr(_)
NatToStr(k) == IF k < 10 THEN <<Digits[k + 1]>>
               ELSE NatToStr(k \div 10) \o <<Digits[(k % 10) + 1]>>

\* String(v) / template-literal interpolation.
ToStr(v) ==
  CASE v.t = "string" -> v.s
    [] v.t = "number" -> NatToStr(v.n)
    [] v.t = "nan" -> S_NaN
    [] v.t = "undefined" -> S_undefined
    [] v.t = "null" -> S_null
    [] OTHER -> S_object

RECURSIVE MapChars(_, _, _)
MapChars(chars, from, to) ==
  IF chars = <<>> THEN <<>>
  ELSE LET c == Head(chars)
           i == IndexIn(from, c)
       IN <<IF i = 0 THEN c ELSE to[i]>> \o MapChars(Tail(chars), from, to)

toUpperCase(chars) == MapChars(chars, LowerLetters, UpperLetters)
toLowerCase(chars) == MapChars(chars, UpperLetters, LowerLetters)

\* The decimal value of a sequence of digits.
RECURSIVE DigitsToNat(_)
DigitsToNat(chars) ==
  IF chars = <<>> THEN 0
  ELSE 10 * DigitsToNat(SubSeq(chars, 1, Len(chars) - 1))
       + DigitVal(chars[Len(chars)])

AllDigits(chars) == \A i \in 1..Len(chars) : IsDigit(chars[i])

\* Number(v), for the values a report field can hold.
ToNumber(v) ==
  CASE v.t = "number" -> v
    [] v.t = "string" -> IF AllDigits(v.s) THEN Num(DigitsToNat(v.s)) ELSE NaN
    [] v.t = "null" -> Num(0)
    [] OTHER -> NaN

\* The longest prefix of digits.
RECURSIVE DigitPrefix(_)
DigitPrefix(chars) ==
  IF chars = <<>> \/ ~IsDigit(Head(chars)) THEN <<>>
  ELSE <<Head(chars)>> \o DigitPrefix(Tail(chars))

\* parseInt(chars, 10) of text with no sign and no leading blanks.
parseInt(chars) ==
  IF DigitPrefix(chars) = <<>> THEN NaN ELSE Num(DigitsToNat(DigitPrefix(chars)))

\* chars.split(sep): the pieces between the occurrences of the character sep.
RECURSIVE Split(_, _)
Split(chars, sep) ==
  IF IndexIn(chars, sep) = 0 THEN <<chars>>
  ELSE LET i == IndexIn(chars, sep)
       IN <<SubSeq(chars, 1, i - 1)>> \o Split(SubSeq(chars, i + 1, Len(chars)), sep)

-----------------------------------------------------------------------------
(* The Date object, as far as formatDate uses it: a civil date is a day    *)
(* number (days since 1970-01-01), so that out-of-range months and days    *)
(* roll over as new Date(year, month, day) rolls them.                     *)

DaysFromCivil(y0, m0, d) ==
  LET yy == y0 + ((m0 - 1) \div 12)
      m == ((m0 - 1) % 12) + 1
      y == IF m <= 2 THEN yy - 1 ELSE yy
      era == y \div 400
      yoe == y - era * 400
      doy == ((153 * (IF m > 2 THEN m - 3 ELSE m + 9) + 2) \div 5) + d - 1
      doe == yoe * 365 + (yoe \div 4) - (yoe \div 100) + doy
  IN era * 146097 + doe - 719468

CivilFromDays(z0) ==
  LET z == z0 + 719468
      era == z \div 146097
      doe == z - era * 146097
      yoe == (doe - (doe \div 1460) + (doe \div 36524) - (doe \div 146096)) \div 365
      doy == doe - (365 * yoe + (yoe \div 4) - (yoe \div 100))
      mp == (5 * doy + 2) \div 153
      d == doy - ((153 * mp + 2) \div 5) + 1
      m == IF mp < 10 THEN mp + 3 ELSE mp - 9
      y == yoe + era * 400 + (IF m <= 2 THEN 1 ELSE 0)
  IN [year |-> y, month |-> m, day |-> d]

WeekdayOfDays(z) == (z + 4) % 7

\* date.toLocaleDateString('en-US', {weekday: 'long', year: 'numeric',
\* month: 'long', day: 'numeric'}) of the day numbered z.
toLocaleDateString(z) ==
  LET c == CivilFromDays(z)
  IN WeekdayNames[WeekdayOfDays(z) + 1] \o <<",", " ">>
     \o MonthNames[c.month] \o <<" ">> \o NatToStr(c.day)
     \o <<",", " ">> \o NatToStr(c.year)

\* new Date(year, month, day) with a zero-based month; years 0..99 are 19xx.
NewDateYMD(year, month, day) ==
  DaysFromCivil(IF year < 100 THEN 1900 + year ELSE year, month + 1, day)

-----------------------------------------------------------------------------
(* Value formatters.                                                       *)

\* Digit grouping of the en-IN locale: the last three digits, then pairs.
RECURSIVE GroupPairs(_)
GroupPairs(chars) ==
  IF Len(chars) <= 2 THEN chars
  ELSE GroupPairs(SubSeq(chars, 1, Len(chars) - 2)) \o <<",">>
       \o SubSeq(chars, Len(chars) - 1, Len(chars))

IndianGrouping(chars) ==
  IF Len(chars) <= 3 THEN chars
  ELSE GroupPairs(SubSeq(chars, 1, Len(chars) - 3)) \o <<",">>
       \o SubSeq(chars, Len(chars) - 2, Len(chars))

formatNumber(num) ==
  IF Nullish(num) THEN S_NA
  ELSE LET k == ToNumber(num)
       IN IF k.t = "nan" THEN S_NaN ELSE IndianGrouping(NatToStr(k.n))

\* div.textContent = text; return div.innerHTML: the text node's serialization.
RECURSIVE SerializeText(_)
SerializeText(chars) ==
  IF chars = <<>> THEN <<>>
  ELSE LET c == Head(chars)
       IN (CASE c = "&" -> <<"&","a","m","p",";">>
             [] c = "<" -> <<"&","l","t",";">>
             [] c = ">" -> <<"&","g","t",";">>
             [] OTHER -> <<c>>)
          \o SerializeText(Tail(chars))

\* Assigning v to textContent: null and undefined give the empty text.
TextContentOf(v) == IF Nullish(v) THEN <<>> ELSE ToStr(v)

weeklyEscapeHtml(text) ==
  IF ~Truthy(text) THEN <<>> ELSE SerializeText(TextContentOf(text))

dailyEscapeHtml(text) == SerializeText(TextContentOf(text))

escapeHtml(pg, text) ==
  IF pg = "weekly" THEN weeklyEscapeHtml(text) ELSE dailyEscapeHtml(text)

formatSetupValue(pg, value) ==
  IF Nullish(value) THEN S_NA
  ELSE IF value.t \in {"number", "nan"} THEN formatNumber(value)
  ELSE escapeHtml(pg, Str(ToStr(value)))

\* weekly.js formatDate: the components are parsed one by one.
weeklyFormatDate(dateStr) ==
  IF ~Truthy(dateStr) THEN S_ThisWeek
  ELSE IF dateStr.t # "string" THEN ToStr(dateStr)  \* split throws, caught
  ELSE LET parts == Split(dateStr.s, "-")
       IN IF Len(parts) = 3
          THEN LET year == parseInt(parts[1])
                   month == parseInt(parts[2])
                   day == parseInt(parts[3])
               IN IF "nan" \in {year.t, month.t, day.t} THEN S_InvalidDate
                  ELSE toLocaleDateString(NewDateYMD(year.n, month.n - 1, day.n))
          ELSE dateStr.s

\* app.js formatDate: new Date(dateStr).  A date-only ISO string is UTC
\* midnight, shown in the viewer's zone: west of Greenwich that is the day
\* before.  A date-time string is local time.  A number is epoch milliseconds.
dailyFormatDate(dateStr, west) ==
  IF ~Truthy(dateStr) THEN S_Today
  ELSE IF dateStr.t = "number"
       THEN toLocaleDateString((dateStr.n \div 86400000) - (IF west THEN 1 ELSE 0))
  ELSE IF dateStr.t # "string" THEN S_InvalidDate
  ELSE LET parts == Split(dateStr.s, "-")
       IN IF Len(parts) = 3 /\ AllDigits(parts[1]) /\ AllDigits(parts[2])
             /\ Len(parts[1]) = 4 /\ Len(parts[2]) = 2
             /\ Len(DigitPrefix(parts[3])) = 2
             /\ (Len(parts[3]) = 2 \/ parts[3][3] = "T")
             /\ DigitsToNat(parts[2]) \in 1..12
             /\ DigitsToNat(DigitPrefix(parts[3])) \in 1..31
          THEN LET z == DaysFromCivil(DigitsToNat(parts[1]), DigitsToNat(parts[2]),
                                      DigitsToNat(DigitPrefix(parts[3])))
               IN toLocaleDateString(IF west /\ Len(parts[3]) = 2 THEN z - 1 ELSE z)
          ELSE S_InvalidDate

-----------------------------------------------------------------------------
(* The report document (parsed JSON).  An object a script reads a property *)
(* of is a record with one field per property the scripts read; a missing  *)
(* property is Undef.                                                      *)

NoSetup ==
  [t |-> "undefined", entry |-> Undef, entryZone |-> Undef, stop |-> Undef,
   stopLoss |-> Undef, target |-> Undef, targetPrice |-> Undef]

EmptySetup == [NoSetup EXCEPT !.t = "object"]

NoAnalysis ==
  [t |-> "undefined", s |-> <<>>, n |-> 0, confidenceScore |-> Undef,
   reasoning |-> Undef, tradeSetup |-> NoSetup]

TextAnalysis(chars) == [NoAnalysis EXCEPT !.t = "string", !.s = chars]

ObjAnalysis(conf, why, setup) ==
  [NoAnalysis EXCEPT !.t = "object", !.confidenceScore = conf,
                     !.reasoning = why, !.tradeSetup = setup]

BaseSignal ==
  [t |-> "object", action |-> Undef, signal |-> Undef, symbol |-> Undef,
   ticker |-> Undef, reference_price |-> Undef, price |-> Undef,
   score |-> Undef, trade_setup |-> NoSetup, analysis |-> NoAnalysis]

NullSignal == [BaseSignal EXCEPT !.t = "null"]

NoMeta ==
  [t |-> "undefined", title |-> Undef, generated_date |-> Undef,
   generated_at |-> Undef, week_ending |-> Undef, total_signals |-> Undef]

NoSignals == [t |-> "undefined", items |-> <<>>]
Signals(items) == [t |-> "array", items |-> items]

Doc(rm, m, sigs) ==
  [t |-> "object", report_metadata |-> rm, meta |-> m, signals |-> sigs]

NullDoc == [Doc(NoMeta, NoMeta, NoSignals) EXCEPT !.t = "null"]
NoDoc == [Doc(NoMeta, NoMeta, NoSignals) EXCEPT !.t = "none"]

\* obj?.prop of an analysis value: only an object carries the property.
AnalysisProp(a, prop) ==
  IF a.t = "object"
  THEN (CASE prop = "confidenceScore" -> a.confidenceScore
          [] prop = "reasoning" -> a.reasoning)
  ELSE Undef

-----------------------------------------------------------------------------
(* Report path.                                                            *)

\* getWeeklyReportPath with the date left out of the path.
getWeeklyReportPathLatestOnly(date) == S_reportsWeekly \o S_latest \o S_json

\* urlParams.get('date') is null when the query has no date parameter.
getWeeklyReportPath(date) ==
  IF Truthy(date) THEN S_reportsWeekly \o ToStr(date) \o S_json
  ELSE S_reportsWeekly \o S_latest \o S_json

getReportPath(date) ==
  IF Truthy(date) THEN S_reports \o ToStr(date) \o S_json
  ELSE S_reports \o S_latest \o S_json

ConfigDataPath(pg, date) ==
  IF pg = "weekly" THEN getWeeklyReportPath(date) ELSE getReportPath(date)

-----------------------------------------------------------------------------
(* Cards.  A card is the markup fragment's filled-in places, the card      *)
(* element's class name, and the analysis panel's interaction state.       *)

Card(className, symbol, price, badgeClass, badge, score, entry, stop, target, analysis) ==
  [className |-> className, symbol |-> symbol, price |-> price,
   badgeClass |-> badgeClass, badge |-> badge, score |-> score,
   entry |-> entry, stop |-> stop, target |-> target, analysis |-> analysis,
   active |-> FALSE, show |-> FALSE, label |-> S_ViewAnalysis]

weeklyAction(signal) == Or(Or(signal.action, signal.signal), Str(S_BUY))

weeklySetup(signal) ==
  IF signal.trade_setup.t = "object" THEN signal.trade_setup
  ELSE IF signal.analysis.t = "object" /\ signal.analysis.tradeSetup.t = "object"
       THEN signal.analysis.tradeSetup
  ELSE EmptySetup

weeklyAnalysisText(signal) ==
  IF signal.analysis.t = "string" THEN Str(signal.analysis.s)
  ELSE IF Truthy(AnalysisProp(signal.analysis, "reasoning"))
       THEN AnalysisProp(signal.analysis, "reasoning")
  ELSE Str(S_NoAnalysis)

\* createSignalCard throws a TypeError on a null entry and on an action
\* that has no toLowerCase.
weeklyCardThrows(signal) ==
  signal.t = "null" \/ weeklyAction(signal).t # "string"

weeklyCreateSignalCard(signal) ==
  LET action == weeklyAction(signal)
      actionClass == toLowerCase(action.s)
      setup == weeklySetup(signal)
      symbolName == Or(Or(signal.symbol, signal.ticker), Str(S_NA))
      price == Or(signal.reference_price, signal.price)
      score == Or(Or(signal.score, AnalysisProp(signal.analysis, "confidenceScore")),
                  Str(S_NA))
  IN Card(S_signalCard \o actionClass,
          weeklyEscapeHtml(symbolName),
          formatNumber(price),
          actionClass,
          weeklyEscapeHtml(action),
          weeklyEscapeHtml(Str(ToStr(score))),
          formatSetupValue("weekly", Or(setup.entry, setup.entryZone)),
          formatSetupValue("weekly", Or(setup.stop, setup.stopLoss)),
          formatSetupValue("weekly", Or(setup.target, setup.targetPrice)),
          weeklyEscapeHtml(weeklyAnalysisText(signal)))

\* signal.action?.toLowerCase() throws when action is neither nullish nor a
\* string.
dailyCardThrows(signal) ==
  signal.t = "null" \/ (~Nullish(signal.action) /\ signal.action.t # "string")

dailyCreateSignalCard(signal) ==
  LET lowered == IF Nullish(signal.action) THEN Undef
                 ELSE Str(toLowerCase(signal.action.s))
      actionClass == Or(lowered, Str(S_buy)).s
      setup == IF signal.trade_setup.t = "object" THEN signal.trade_setup
               ELSE EmptySetup
  IN Card(S_signalCard \o actionClass,
          dailyEscapeHtml(Or(signal.symbol, Str(S_NA))),
          formatNumber(signal.reference_price),
          actionClass,
          dailyEscapeHtml(Or(signal.action, Str(S_NA))),
          dailyEscapeHtml(Or(signal.score, Str(S_NA))),
          formatSetupValue("daily", setup.entry),
          formatSetupValue("daily", setup.stop),
          formatSetupValue("daily", setup.target),
          dailyEscapeHtml(Or(signal.analysis, Str(S_NoAnalysis))))

CardThrows(pg, signal) ==
  IF pg = "weekly" THEN weeklyCardThrows(signal) ELSE dailyCardThrows(signal)

createSignalCard(pg, signal) ==
  IF pg = "weekly" THEN weeklyCreateSignalCard(signal)
  ELSE dailyCreateSignalCard(signal)

-----------------------------------------------------------------------------
(* The page: the elements the scripts write to.  The static page holds     *)
(* some text in them before the script runs; StaticText stands for it.     *)

StaticText == <<"-">>

Container(kind, cards) == [kind |-> kind, cards |-> cards]

InitialDom ==
  [reportTitle |-> StaticText, reportDate |-> StaticText,
   totalSignals |-> StaticText, buySignals |-> StaticText,
   sellSignals |-> StaticText, container |-> Container("static", <<>>)]

\* showError without the replacement of the content area.
showErrorKeepsContent(d) == [d EXCEPT !.reportDate = S_ErrorLoading]

showError(d) ==
  [d EXCEPT !.container = Container("error", <<>>),
            !.reportDate = S_ErrorLoading]

\* The action a signal is counted under, as an uppercased JS value.
weeklyCountAction(s) == Or(Or(s.action, s.signal), Str(<<>>))

\* The filter callbacks throw on a null entry and on an action that has no
\* toUpperCase.
CountThrows(pg, s) ==
  \/ s.t = "null"
  \/ pg = "weekly" /\ weeklyCountAction(s).t # "string"
  \/ pg = "daily" /\ ~Nullish(s.action) /\ s.action.t # "string"

CountedAs(pg, s) ==
  IF pg = "weekly" THEN toUpperCase(weeklyCountAction(s).s)
  ELSE IF Nullish(s.action) THEN <<>> ELSE toUpperCase(s.action.s)

\* data.signals?.filter(s => ... === which).length || 0
CountSignals(pg, sigs, which) ==
  IF sigs.t = "undefined" THEN 0
  ELSE Cardinality({i \in 1..Len(sigs.items) : CountedAs(pg, sigs.items[i]) = which})

\* meta.total_signals || data.signals?.length || 0
TotalSignals(meta, sigs) ==
  Or(Or(meta.total_signals,
        IF sigs.t = "undefined" THEN Undef ELSE Num(Len(sigs.items))),
     Num(0))

\* The metadata block a page reads.
MetaOf(pg, doc) ==
  IF pg = "weekly" THEN (IF doc.report_metadata.t = "object"
                         THEN doc.report_metadata ELSE doc.meta)
  ELSE doc.report_metadata

\* weekly.js: generated_date, else the part of generated_at before 'T'.
weeklyDateStr(meta) ==
  IF ~Truthy(meta.generated_date) /\ Truthy(meta.generated_at)
  THEN Str(Split(meta.generated_at.s, "T")[1])
  ELSE meta.generated_date

\* meta.generated_at.split throws when generated_at is truthy and no string.
MetaThrows(pg, meta) ==
  /\ pg = "weekly"
  /\ ~Truthy(meta.generated_date)
  /\ Truthy(meta.generated_at)
  /\ meta.generated_at.t # "string"

\* The header lines renderReport writes from the metadata block.
RenderMeta(pg, doc, west, d) ==
  LET meta == MetaOf(pg, doc)
  IN IF meta.t # "object" THEN d
     ELSE IF pg = "weekly"
     THEN IF MetaThrows(pg, meta) THEN [d EXCEPT !.reportTitle = S_WeeklySignals]
          ELSE [d EXCEPT !.reportTitle = S_WeeklySignals,
                         !.reportDate = S_WeekOf \o weeklyFormatDate(weeklyDateStr(meta)),
                         !.totalSignals = TextContentOf(TotalSignals(meta, doc.signals))]
     ELSE [d EXCEPT !.reportTitle = TextContentOf(Or(meta.title, Str(S_SwingSignalAI))),
                    !.reportDate = dailyFormatDate(meta.generated_date, west),
                    !.totalSignals = TextContentOf(TotalSignals(meta, doc.signals))]

\* renderSignals: the cards appended before the first entry that throws.
RECURSIVE CardsOf(_, _)
CardsOf(pg, items) ==
  IF items = <<>> \/ CardThrows(pg, Head(items)) THEN <<>>
  ELSE <<createSignalCard(pg, Head(items))>> \o CardsOf(pg, Tail(items))

renderSignals(pg, items, d) ==
  IF items = <<>> THEN [d EXCEPT !.container = Container("empty", <<>>)]
  ELSE [d EXCEPT !.container = Container("cards", CardsOf(pg, items))]

\* renderReport(data) on the page d: the page it leaves, and whether it threw.
renderReport(pg, doc, west, d) ==
  IF doc.t = "null" THEN [threw |-> TRUE, dom |-> d]
  ELSE LET meta == MetaOf(pg, doc)
           d1 == RenderMeta(pg, doc, west, d)
           items == doc.signals.items
       IN IF meta.t = "object" /\ MetaThrows(pg, meta)
          THEN [threw |-> TRUE, dom |-> d1]
          ELSE IF \E i \in 1..Len(items) : CountThrows(pg, items[i])
          THEN [threw |-> TRUE, dom |-> d1]
          ELSE LET d2 == [d1 EXCEPT
                            !.buySignals = NatToStr(CountSignals(pg, doc.signals, S_BUY)),
                            !.sellSignals = NatToStr(CountSignals(pg, doc.signals, S_SELL))]
                   d3 == renderSignals(pg, items, d2)
               IN [threw |-> \E i \in 1..Len(items) : CardThrows(pg, items[i]),
                   dom |-> d3]

\* toggleAnalysis with the label chosen from the panel's state before the
\* toggle.
toggleAnalysisStaleLabel(card) ==
  [card EXCEPT !.active = ~card.active,
               !.show = ~card.show,
               !.label = IF card.show THEN S_HideAnalysis ELSE S_ViewAnalysis]

\* toggleAnalysis(button) on the card the button belongs to.
toggleAnalysis(card) ==
  LET shown == ~card.show
  IN [card EXCEPT !.active = ~card.active,
                  !.show = shown,
                  !.label = IF shown THEN S_HideAnalysis ELSE S_ViewAnalysis]

-----------------------------------------------------------------------------
(* The inputs explored: query strings and report documents.                *)

T_2026_01_10 == <<"2","0","2","6","-","0","1","-","1","0">>
T_2025_12_01 == <<"2","0","2","5","-","1","2","-","0","1">>
T_2026_01_03T == <<"2","0","2","6","-","0","1","-","0","3","T","1","6",":","2","5",":","1","3">>
T_soon == <<"s","o","o","n">>
T_zone == <<"3","5","0","0","-","3","5","5","0">>
T_TCS == <<"T","C","S",".","N","S">>
T_INFY == <<"I","N","F","Y">>
T_pct == <<"8","5","%">>
T_markup == <<"<","b",">">>
T_RnD == <<"R","&","D">>
T_Sell == <<"S","e","l","l">>
T_Hold == <<"H","o","l","d">>
T_title == <<"T","o","p">>

\* ?date=...: absent, empty, or a date.
QueryDates == {Null, Str(<<>>), Str(T_2026_01_10)}

Pages == {"daily", "weekly"}

SeqsUpTo(S, k) == UNION {[1..j -> S] : j \in 0..k}

\* Entries that differ in the action fields, and the null entry.
ActionValues == {Undef, Str(S_buy), Str(S_SELL), Str(T_Hold), Num(5)}
SignalValues == {Undef, Str(T_Sell)}

ActionEntries ==
  {[BaseSignal EXCEPT !.action = a, !.signal = s] :
     a \in ActionValues, s \in SignalValues} \cup {NullSignal}

BuyEntry == [BaseSignal EXCEPT !.action = Str(S_BUY)]

\* Entries that differ in one logical field: the primary and the legacy name.
SetupValues == {Undef, Num(0), Str(<<>>), Num(3500), Str(T_markup)}

SetupEntries ==
  {[BaseSignal EXCEPT !.trade_setup = su] :
     su \in {[EmptySetup EXCEPT !.entry = p, !.entryZone = l] :
               p \in SetupValues, l \in {Undef, Str(T_zone)}}
          \cup {[EmptySetup EXCEPT !.stop = p, !.stopLoss = l] :
               p \in SetupValues, l \in {Undef, Num(95)}}
          \cup {[EmptySetup EXCEPT !.target = p, !.targetPrice = l] :
               p \in SetupValues, l \in {Undef, Str(T_RnD)}}}

FieldEntries ==
  {[BaseSignal EXCEPT !.symbol = p, !.ticker = l] :
     p \in {Undef, Str(<<>>), Str(T_TCS), Str(T_markup)}, l \in {Undef, Str(T_INFY)}}
  \cup {[BaseSignal EXCEPT !.reference_price = p, !.price = l] :
     p \in {Undef, Num(0), Num(1234567), Str(T_markup)}, l \in {Undef, Num(100)}}
  \cup {[BaseSignal EXCEPT !.score = p, !.analysis = a] :
     p \in {Undef, Num(0), Str(T_pct), Num(85)},
     a \in {NoAnalysis, ObjAnalysis(Num(70), Undef, NoSetup)}}
  \cup {[BaseSignal EXCEPT !.analysis = a] :
     a \in {TextAnalysis(T_markup), TextAnalysis(T_RnD), TextAnalysis(<<>>),
            ObjAnalysis(Undef, Str(T_markup), NoSetup),
            ObjAnalysis(Undef, Undef,
                        [EmptySetup EXCEPT !.entryZone = Str(T_zone)])}}
  \cup {[BaseSignal EXCEPT !.action = a, !.signal = s] :
     a \in {Undef, Str(<<>>), Str(T_markup)}, s \in {Undef, Str(T_markup), Str(T_Sell)}}
  \cup SetupEntries

Metas ==
  {[t |-> "object", title |-> ti, generated_date |-> gd, generated_at |-> ga,
    week_ending |-> we, total_signals |-> ts] :
     ti \in {Undef, Str(T_title)},
     gd \in {Undef, Str(T_2025_12_01), Str(T_soon)},
     ga \in {Undef, Str(T_2026_01_03T), Num(5)},
     we \in {Undef, Str(T_2026_01_10)},
     ts \in {Undef, Null, Num(0), Num(1), Num(7)}}

PlainMeta ==
  [NoMeta EXCEPT !.t = "object", !.generated_date = Str(T_2025_12_01)]

\* The signal lists of the documents that vary the metadata: one per length.
ListsByLength ==
  {NoSignals} \cup {Signals([i \in 1..j |-> BuyEntry]) : j \in 0..MaxSignals}

Docs ==
  {NullDoc}
  \cup {Doc(m, NoMeta, l) : m \in Metas \cup {NoMeta}, l \in ListsByLength}
  \cup {Doc(NoMeta, m, l) : m \in Metas, l \in ListsByLength}
  \cup {Doc(m, NoMeta, Signals(l)) :
          m \in {NoMeta, PlainMeta}, l \in SeqsUpTo(ActionEntries, MaxSignals)}
  \cup {Doc(PlainMeta, NoMeta, Signals(<<e>>)) : e \in FieldEntries}

-----------------------------------------------------------------------------
(* The state machine of one page load.                                     *)
(*   pc       "ready"    the script has run: CONFIG is built and loadReport *)
(*                       is registered for DOMContentLoaded                *)
(*            "fetching" loadReport awaits the response                    *)
(*            "done"     loadReport has returned                           *)
(*   fetches  the paths passed to fetch, in order                          *)
(*   outcome  how the awaited fetch ended                                  *)
(*   data     the document response.json() delivered                      *)
(*   clicks   per card, the number of clicks on its button so far          *)

RECURSIVE SumSeq(_)
SumSeq(q) == IF q = <<>> THEN 0 ELSE Head(q) + SumSeq(Tail(q))

Init ==
  /\ page \in Pages
  /\ query \in QueryDates
  /\ dataPath = ConfigDataPath(page, query)
  /\ pc = "ready"
  /\ fetches = <<>>
  /\ outcome = "none"
  /\ data = NoDoc
  /\ dom = InitialDom
  /\ clicks = <<>>

\* DOMContentLoaded: loadReport runs up to its first await.
LoadReport ==
  /\ pc = "ready"
  /\ pc' = "fetching"
  /\ fetches' = Append(fetches, dataPath)
  /\ UNCHANGED <<page, query, dataPath, outcome, data, dom, clicks>>

\* The catch block of loadReport.
Fail(how) ==
  /\ pc = "fetching"
  /\ pc' = "done"
  /\ outcome' = how
  /\ dom' = showError(dom)
  /\ UNCHANGED <<page, query, dataPath, fetches, data, clicks>>

\* fetch rejects: a transport-level failure.
FetchRejected == Fail("network")

\* The response arrives with a non-success status.
FetchNotOk == Fail("status")

\* response.json() rejects: the body is no JSON.
JsonRejected == Fail("syntax")

\* The response is parsed and rendered; an exception of renderReport ends
\* in the catch block.
FetchOk ==
  /\ pc = "fetching"
  /\ \E doc \in Docs, west \in BOOLEAN :
       LET r == renderReport(page, doc, west, dom)
           d == IF r.threw THEN showError(r.dom) ELSE r.dom
       IN /\ data' = doc
          /\ dom' = d
          /\ clicks' = [i \in 1..Len(d.container.cards) |-> 0]
  /\ pc' = "done"
  /\ outcome' = "ok"
  /\ UNCHANGED <<page, query, dataPath, fetches>>

\* A click on the analysis button of card i.
ToggleAnalysis ==
  /\ pc = "done"
  /\ SumSeq(clicks) < MaxClicks
  /\ \E i \in 1..Len(dom.container.cards) :
       /\ dom' = [dom EXCEPT !.container.cards[i] = toggleAnalysis(@)]
       /\ clicks' = [clicks EXCEPT ![i] = @ + 1]
  /\ UNCHANGED <<page, query, dataPath, pc, fetches, outcome, data>>

Next ==
  \/ LoadReport
  \/ FetchRejected
  \/ FetchNotOk
  \/ JsonRejected
  \/ FetchOk
  \/ ToggleAnalysis

Spec == Init /\ [][Next]_vars

-----------------------------------------------------------------------------
(* Properties.                                                             *)

\* loadReport has returned after rendering the delivered document.
Rendered ==
  pc = "done" /\ outcome = "ok" /\ dom.container.kind \in {"cards", "empty"}

Cards == dom.container.cards
Items == data.signals.items

\* The action of an entry as the report format defines it: action, else
\* signal, uppercased, and BUY when that is neither BUY nor SELL.
NormalizedAction(s) ==
  LET raw == Or(s.action, s.signal)
      upper == IF raw.t = "string" THEN toUpperCase(raw.s) ELSE <<>>
  IN IF upper \in {S_BUY, S_SELL} THEN upper ELSE S_BUY

\* C1: on every rendered card the badge text is the entry's normalized
\* action, one of the uppercase values BUY and SELL whatever the casing of
\* the input and BUY when action and signal are missing, and the class of
\* the badge is that action's class.
C1_CardActionIsBuyOrSell ==
  Rendered =>
    \A i \in 1..Len(Cards) :
      /\ Cards[i].badge \in {S_BUY, S_SELL}
      /\ Cards[i].badge = NormalizedAction(Items[i])
      /\ Cards[i].badgeClass = toLowerCase(NormalizedAction(Items[i]))

\* The action a card shows, uppercased.
ShownAction(card) == toUpperCase(card.badge)

ShownCount(which) ==
  Cardinality({i \in 1..Len(Cards) : ShownAction(Cards[i]) = which})

\* C2: the buy count is the number of cards that show BUY, the sell count
\* the number that show SELL, the two never exceed the number of entries,
\* and they add up to it when every card shows BUY or SELL.
C2_CountsMatchCards ==
  Rendered =>
    /\ dom.buySignals = NatToStr(ShownCount(S_BUY))
    /\ dom.sellSignals = NatToStr(ShownCount(S_SELL))
    /\ ShownCount(S_BUY) + ShownCount(S_SELL) <= Len(Items)
    /\ (\A i \in 1..Len(Cards) : ShownAction(Cards[i]) \in {S_BUY, S_SELL})
         => DigitsToNat(dom.buySignals) + DigitsToNat(dom.sellSignals) = Len(Items)

\* C3: the displayed total is total_signals when the metadata holds it and
\* it is not null (0 included, and whether or not it agrees with the number
\* of entries), and the number of signals otherwise.  Stated for the
\* documents with a metadata block: without one the scripts leave the
\* static page's text in place, which is no part of them.
C3_TotalIsExplicitCountElseLength ==
  (Rendered /\ MetaOf(page, data).t = "object") =>
    LET meta == MetaOf(page, data)
    IN dom.totalSignals =
         IF ~Nullish(meta.total_signals) THEN ToStr(meta.total_signals)
         ELSE NatToStr(Len(Items))

\* C4: after a transport failure or a non-success status the content area
\* holds the fixed unable-to-load message and no card, the date label reads
\* as an error, and the one fetch of the load is the only one issued.
C4_FailureShowsErrorOnce ==
  /\ Len(fetches) <= 1
  /\ (pc = "done" /\ outcome \in {"network", "status"}) =>
       /\ dom.container = Container("error", <<>>)
       /\ dom.reportDate = S_ErrorLoading
       /\ Len(fetches) = 1

C4_Witness ==
  /\ pc = "done" /\ outcome = "status"
  /\ dom.container.kind = "error" /\ fetches = <<dataPath>>

\* C5: every document delivered as parsed JSON ends in the rendered state;
\* the error state follows only a transport failure or non-success status.
C5_DeliveredDocumentRenders ==
  (pc = "done" /\ outcome = "ok") => dom.container.kind \in {"cards", "empty"}

\* C6: a card starts collapsed with the label "View Analysis"; the label is
\* "Hide Analysis" exactly when the panel is shown, the button's active
\* marker agrees with the panel's shown marker, and the panel is shown
\* exactly after an odd number of clicks on the card's button.
C6_LabelMirrorsPanel ==
  \A i \in 1..Len(Cards) :
    /\ Cards[i].label = (IF Cards[i].show THEN S_HideAnalysis ELSE S_ViewAnalysis)
    /\ Cards[i].active = Cards[i].show
    /\ Cards[i].show = (clicks[i] % 2 = 1)

C6_Witness ==
  \E i \in 1..Len(Cards) :
    /\ clicks[i] = 2 /\ ~Cards[i].show /\ Cards[i].label = S_ViewAnalysis
    /\ \E j \in 1..Len(Cards) : clicks[j] = 1 /\ Cards[j].label = S_HideAnalysis

\* Text that can stand in the fragment without adding markup structure.
NoRawMarkup(chars) == \A k \in 1..Len(chars) : chars[k] \notin {"<", ">"}

\* C7: no place of a card's fragment filled from the report holds raw
\* report text: symbol, price, the action in the badge text and in the
\* class attribute, score, entry, stop, target and analysis are escaped.
C7_FragmentHoldsNoRawText ==
  \A i \in 1..Len(Cards) :
    /\ NoRawMarkup(Cards[i].symbol)
    /\ NoRawMarkup(Cards[i].price)
    /\ NoRawMarkup(Cards[i].badge)
    /\ NoRawMarkup(Cards[i].badgeClass)
    /\ NoRawMarkup(Cards[i].score)
    /\ NoRawMarkup(Cards[i].entry)
    /\ NoRawMarkup(Cards[i].stop)
    /\ NoRawMarkup(Cards[i].target)
    /\ NoRawMarkup(Cards[i].analysis)

\* C8: the report path depends on the date selector alone: with a date it
\* is reports/<date>.json (daily) or reports/weekly/<date>.json (weekly),
\* without one the latest.json of the kind; it is the only path fetched.
C8_PathFollowsDateSelector ==
  LET dir == IF page = "weekly"
             THEN <<"r","e","p","o","r","t","s","/","w","e","e","k","l","y","/">>
             ELSE <<"r","e","p","o","r","t","s","/">>
      name == IF query.t = "string" /\ query.s # <<>> THEN query.s
              ELSE <<"l","a","t","e","s","t">>
  IN /\ dataPath = dir \o name \o <<".","j","s","o","n">>
     /\ Len(fetches) <= 1
     /\ \A k \in 1..Len(fetches) : fetches[k] = dataPath

C8_Witness ==
  /\ pc = "done" /\ page = "weekly" /\ query = Str(T_2026_01_10)
  /\ fetches = << <<"r","e","p","o","r","t","s","/","w","e","e","k","l","y","/",
                    "2","0","2","6","-","0","1","-","1","0",".","j","s","o","n">> >>

\* The date a weekly report is dated by: week_ending, else generated_date,
\* else the part of generated_at before the 'T'.
ResolvedDate(meta) ==
  IF Truthy(meta.week_ending) THEN meta.week_ending
  ELSE IF Truthy(meta.generated_date) THEN meta.generated_date
  ELSE IF Truthy(meta.generated_at) /\ meta.generated_at.t = "string"
       THEN Str(Split(meta.generated_at.s, "T")[1])
  ELSE Undef

\* C9: the weekly page shows the date resolved from week_ending, then
\* generated_date, then the date part of generated_at, and the default
\* period label when all three are absent.
C9_WeekEndingWins ==
  (Rendered /\ page = "weekly" /\ MetaOf(page, data).t = "object") =>
    dom.reportDate = S_WeekOf \o weeklyFormatDate(ResolvedDate(MetaOf(page, data)))

\* What a field with a primary and a legacy name has to show: the primary
\* name's value when the entry holds both names, the legacy name's when the
\* primary is absent.
ShowsPrimary(primary, legacy, shown, ofPrimary, ofLegacy) ==
  /\ (primary.t # "undefined" /\ legacy.t # "undefined") => shown = ofPrimary
  /\ (primary.t = "undefined" /\ legacy.t # "undefined") => shown = ofLegacy

\* C10: on the weekly page a field with a primary and a legacy name shows
\* the primary name's value whenever the entry holds both (0 and the empty
\* string included), and the legacy name's value when the primary is absent.
C10_PrimaryNameWins ==
  (Rendered /\ page = "weekly") =>
    \A i \in 1..Len(Cards) :
      LET e == Items[i]
          c == Cards[i]
          setup == weeklySetup(e)
          conf == e.analysis.confidenceScore
      IN /\ ShowsPrimary(e.symbol, e.ticker, c.symbol,
                         SerializeText(ToStr(e.symbol)), SerializeText(ToStr(e.ticker)))
         /\ ShowsPrimary(e.reference_price, e.price, c.price,
                         formatNumber(e.reference_price), formatNumber(e.price))
         /\ ShowsPrimary(e.score, conf, c.score,
                         SerializeText(ToStr(e.score)), SerializeText(ToStr(conf)))
         /\ ShowsPrimary(e.action, e.signal, c.badge,
                         SerializeText(ToStr(e.action)), SerializeText(ToStr(e.signal)))
         /\ ShowsPrimary(setup.entry, setup.entryZone, c.entry,
                         formatSetupValue(page, setup.entry),
                         formatSetupValue(page, setup.entryZone))
         /\ ShowsPrimary(setup.stop, setup.stopLoss, c.stop,
                         formatSetupValue(page, setup.stop),
                         formatSetupValue(page, setup.stopLoss))
         /\ ShowsPrimary(setup.target, setup.targetPrice, c.target,
                         formatSetupValue(page, setup.target),
                         formatSetupValue(page, setup.targetPrice))

=============================================================================
